---- MODULE Spec2Model ----
(***************************************************************************)
(* Model of the task workflow scripts: the title similarity scoring, the   *)
(* similar-issue lookup and the main flow of scripts/start_task.py.        *)
(*                                                                         *)
(* Text is a sequence of one-character strings.  A score is an exact       *)
(* rational <<numerator, denominator>> with a positive denominator; the    *)
(* 'similarity' and 'relevance' values the code stores after round(x, 2)   *)
(* are integers counting hundredths.                                       *)
(***************************************************************************)
EXTENDS Integers, Sequences, FiniteSets, TLC

(***************************************************************************)
(* Text helpers: str.lower, re.findall(r'\b\w+\b', ...), str.split         *)
(***************************************************************************)

\* The characters \w matches among the characters the model uses.
WordChars ==
    {"a", "b", "d", "e", "f", "g", "h", "i", "l", "n", "o", "t", "u", "x",
     "B", "F", "L", "T"}

\* str.lower on one character
LowerChar(c) ==
    CASE c = "B" -> "b"
      [] c = "F" -> "f"
      [] c = "L" -> "l"
      [] c = "T" -> "t"
      [] c = "E" -> "e"
      [] c = "Q" -> "q"
      [] OTHER -> c

\* str.lower
Lower(text) == [k \in 1..Len(text) |-> LowerChar(text[k])]

\* re.findall(r'\b\w+\b', text): the maximal runs of word characters, left
\* to right.  cur is the run being read.
RECURSIVE WordRuns(_, _, _)
WordRuns(text, k, cur) ==
    IF k > Len(text)
    THEN IF cur = <<>> THEN <<>> ELSE <<cur>>
    ELSE IF text[k] \in WordChars
         THEN WordRuns(text, k + 1, Append(cur, text[k]))
         ELSE IF cur = <<>>
              THEN WordRuns(text, k + 1, <<>>)
              ELSE <<cur>> \o WordRuns(text, k + 1, <<>>)

FindWords(text) == WordRuns(text, 1, <<>>)

\* str.split(): the maximal runs of non-whitespace characters
RECURSIVE SplitRuns(_, _, _)
SplitRuns(text, k, cur) ==
    IF k > Len(text)
    THEN IF cur = <<>> THEN <<>> ELSE <<cur>>
    ELSE IF text[k] # " "
         THEN SplitRuns(text, k + 1, Append(cur, text[k]))
         ELSE IF cur = <<>>
              THEN SplitRuns(text, k + 1, <<>>)
              ELSE <<cur>> \o SplitRuns(text, k + 1, <<>>)

Split(text) == SplitRuns(text, 1, <<>>)

Range(s) == {s[k] : k \in 1..Len(s)}

Max(a, b) == IF a >= b THEN a ELSE b

(***************************************************************************)
(* difflib.SequenceMatcher(None, a, b).ratio(), for texts shorter than the *)
(* 200 characters at which its automatic junk heuristic starts.            *)
(***************************************************************************)

\* The starts <<i, j>> in S whose common run a[i..], b[j..] inside a[..ahi],
\* b[..bhi] is longest, with that length: <<starts, length>>.  Every start
\* in S has a common run of at least k characters.
RECURSIVE LongestRuns(_, _, _, _, _, _)
LongestRuns(a, b, ahi, bhi, S, k) ==
    LET longer == { p \in S : /\ p[1] + k <= ahi
                              /\ p[2] + k <= bhi
                              /\ a[p[1] + k] = b[p[2] + k] }
    IN  IF longer = {} THEN <<S, k>> ELSE LongestRuns(a, b, ahi, bhi, longer, k + 1)

\* SequenceMatcher.find_longest_match on a[alo..ahi], b[blo..bhi] (inclusive,
\* 1-based): the longest matching block, of those the one starting earliest
\* in a, of those the one starting earliest in b.  <<i, j, k>>, k = 0 if none.
FindLongestMatch(a, b, alo, ahi, blo, bhi) ==
    LET r == LongestRuns(a, b, ahi, bhi, (alo..ahi) \X (blo..bhi), 0)
    IN  IF r[2] = 0
        THEN <<alo, blo, 0>>
        ELSE LET best == CHOOSE p \in r[1] :
                            \A q \in r[1] : p[1] < q[1] \/ (p[1] = q[1] /\ p[2] <= q[2])
             IN  <<best[1], best[2], r[2]>>

\* SequenceMatcher.get_matching_blocks: the number of matched characters,
\* the longest block plus the blocks found to its left and to its right.
RECURSIVE MatchedChars(_, _, _, _, _, _)
MatchedChars(a, b, alo, ahi, blo, bhi) ==
    IF alo > ahi \/ blo > bhi
    THEN 0
    ELSE LET m == FindLongestMatch(a, b, alo, ahi, blo, bhi)
         IN  IF m[3] = 0 THEN 0
             ELSE m[3]
                  + MatchedChars(a, b, alo, m[1] - 1, blo, m[2] - 1)
                  + MatchedChars(a, b, m[1] + m[3], ahi, m[2] + m[3], bhi)

\* SequenceMatcher.ratio: 2.0 * matches / (len(a) + len(b)), 1.0 for two empty texts
Ratio(a, b) ==
    IF Len(a) + Len(b) = 0
    THEN <<1, 1>>
    ELSE <<2 * MatchedChars(a, b, 1, Len(a), 1, Len(b)), Len(a) + Len(b)>>

(***************************************************************************)
(* scripts/start_task.py: the similarity score                             *)
(***************************************************************************)

calculate_similarity(text1, text2) == Ratio(Lower(text1), Lower(text2))

stop_words ==
    { <<"a">>, <<"a", "n">>, <<"t", "h", "e">>, <<"a", "n", "d">>, <<"o", "r">>,
      <<"b", "u", "t">>, <<"i", "s">>, <<"a", "r", "e">>, <<"i", "n">>, <<"t", "o">>,
      <<"f", "o", "r">>, <<"w", "i", "t", "h">>, <<"o", "n">>, <<"a", "t">> }

\* The list of words kept, in order (duplicates kept, as in the code).
tokenize_text(text) ==
    SelectSeq(FindWords(Lower(text)), LAMBDA w : w \notin stop_words /\ Len(w) >= 3)

\* Mutant: the plain Jaccard index, without the weight of the common tokens
calculate_token_similarity_unweighted(tokens1, tokens2) ==
    IF tokens1 = <<>> \/ tokens2 = <<>>
    THEN <<0, 1>>
    ELSE LET set1 == Range(tokens1)
             set2 == Range(tokens2)
         IN  <<Cardinality(set1 \cap set2), Cardinality(set1 \cup set2)>>

\* Mutant: equal token lists score 1.0 before the test for an empty list
calculate_token_similarity_equal_first(tokens1, tokens2) ==
    IF tokens1 = tokens2
    THEN <<1, 1>>
    ELSE IF tokens1 = <<>> \/ tokens2 = <<>>
    THEN <<0, 1>>
    ELSE LET set1 == Range(tokens1)
             set2 == Range(tokens2)
             n == Cardinality(set1 \cap set2)
             u == Cardinality(set1 \cup set2)
         IN  <<n * (10 + n), 10 * u>>

\* jaccard_index * (1 + 0.1 * len(intersection)) as an exact rational
calculate_token_similarity(tokens1, tokens2) ==
    IF tokens1 = <<>> \/ tokens2 = <<>>
    THEN <<0, 1>>
    ELSE LET set1 == Range(tokens1)
             set2 == Range(tokens2)
             n == Cardinality(set1 \cap set2)
             u == Cardinality(set1 \cup set2)
         IN  <<n * (10 + n), 10 * u>>

\* 0.4 * string_similarity + 0.6 * token_similarity
CombinedOf(s, t) == <<4 * s[1] * t[2] + 6 * t[1] * s[2], 10 * s[2] * t[2]>>

combined_similarity(title, issue_title) ==
    CombinedOf(calculate_similarity(title, issue_title),
               calculate_token_similarity(tokenize_text(title), tokenize_text(issue_title)))

\* Comparisons of an exact score with a value given in hundredths
ScoreGeq(s, h) == 100 * s[1] >= h * s[2]
ScoreGt(s, h) == 100 * s[1] > h * s[2]
ScoreLess(s, t) == s[1] * t[2] < t[1] * s[2]

\* round(x, 2), in hundredths: the nearest hundredth, a tie going to the even one
Round2(s) ==
    LET q == (100 * s[1]) \div s[2]
        r == (100 * s[1]) % s[2]
    IN  IF 2 * r > s[2] THEN q + 1
        ELSE IF 2 * r = s[2] THEN q + (q % 2)
        ELSE q

RECURSIVE InsertDesc(_, _)

\* Mutant: a descending sort that puts a later entry before its equals
InsertDescUnstable(l, e) ==
    IF l = <<>> THEN <<e>>
    ELSE IF Head(l).score > e.score
         THEN <<Head(l)>> \o InsertDesc(Tail(l), e)
         ELSE <<e>> \o l

\* list.sort(key=lambda x: x[...], reverse=True): descending by score, entries
\* with equal scores keeping their order.  Insert e into the sorted list l.
InsertDesc(l, e) ==
    IF l = <<>> THEN <<e>>
    ELSE IF Head(l).score >= e.score
         THEN <<Head(l)>> \o InsertDesc(Tail(l), e)
         ELSE <<e>> \o l

RECURSIVE SortDesc(_)
SortDesc(l) ==
    IF l = <<>> THEN <<>>
    ELSE InsertDesc(SortDesc(SubSeq(l, 1, Len(l) - 1)), l[Len(l)])

(***************************************************************************)
(* scripts/start_task.py: find_similar_issues                              *)
(***************************************************************************)

\* Python's None for an issue number (issue numbers are positive, and the
\* code tests the number by truth value)
None == 0

NoUrl == <<>>

\* highest_sim_issue = None
NoIssue ==
    [number |-> None, title |-> <<>>, state |-> "none", html_url |-> NoUrl,
     pull_request |-> FALSE]

\* The 0.85 of 'very similar', in hundredths
HighSimilarity == 85

\* The default similarity_threshold, in hundredths
DefaultThreshold == 70

\* The entry appended to similar_issues
SimilarEntry(issue, combined) ==
    [number |-> issue.number, title |-> issue.title, state |-> issue.state,
     url |-> issue.html_url, kind |-> "similarity", score |-> Round2(combined)]

\* Mutant: the exact match compares the titles as they are
ScanStepCaseSensitive(acc, title, issue, threshold) ==
    LET isExact == issue.title = title
        combined == combined_similarity(title, issue.title)
        higher == ScoreLess(acc.highest_similarity, combined)
    IN  [exact_match |-> IF isExact THEN issue.number ELSE acc.exact_match,
         exact_match_url |-> IF isExact THEN issue.html_url ELSE acc.exact_match_url,
         highest_similarity |-> IF higher THEN combined ELSE acc.highest_similarity,
         highest_sim_issue |-> IF higher THEN issue ELSE acc.highest_sim_issue,
         similar_issues |-> IF ScoreGeq(combined, threshold)
                            THEN Append(acc.similar_issues, SimilarEntry(issue, combined))
                            ELSE acc.similar_issues]

\* Mutant: an issue that equals the highest score so far replaces it
ScanStepLastHighest(acc, title, issue, threshold) ==
    LET isExact == Lower(issue.title) = Lower(title)
        combined == combined_similarity(title, issue.title)
        higher == ~ScoreLess(combined, acc.highest_similarity)
    IN  [exact_match |-> IF isExact THEN issue.number ELSE acc.exact_match,
         exact_match_url |-> IF isExact THEN issue.html_url ELSE acc.exact_match_url,
         highest_similarity |-> IF higher THEN combined ELSE acc.highest_similarity,
         highest_sim_issue |-> IF higher THEN issue ELSE acc.highest_sim_issue,
         similar_issues |-> IF ScoreGeq(combined, threshold)
                            THEN Append(acc.similar_issues, SimilarEntry(issue, combined))
                            ELSE acc.similar_issues]

\* Mutant: an issue must exceed the threshold
ScanStepAboveThreshold(acc, title, issue, threshold) ==
    LET isExact == Lower(issue.title) = Lower(title)
        combined == combined_similarity(title, issue.title)
        higher == ScoreLess(acc.highest_similarity, combined)
    IN  [exact_match |-> IF isExact THEN issue.number ELSE acc.exact_match,
         exact_match_url |-> IF isExact THEN issue.html_url ELSE acc.exact_match_url,
         highest_similarity |-> IF higher THEN combined ELSE acc.highest_similarity,
         highest_sim_issue |-> IF higher THEN issue ELSE acc.highest_sim_issue,
         similar_issues |-> IF ScoreGt(combined, threshold)
                            THEN Append(acc.similar_issues, SimilarEntry(issue, combined))
                            ELSE acc.similar_issues]

\* One pass of the loop over the issues
ScanStep(acc, title, issue, threshold) ==
    LET isExact == Lower(issue.title) = Lower(title)
        combined == combined_similarity(title, issue.title)
        higher == ScoreLess(acc.highest_similarity, combined)
    IN  [exact_match |-> IF isExact THEN issue.number ELSE acc.exact_match,
         exact_match_url |-> IF isExact THEN issue.html_url ELSE acc.exact_match_url,
         highest_similarity |-> IF higher THEN combined ELSE acc.highest_similarity,
         highest_sim_issue |-> IF higher THEN issue ELSE acc.highest_sim_issue,
         similar_issues |-> IF ScoreGeq(combined, threshold)
                            THEN Append(acc.similar_issues, SimilarEntry(issue, combined))
                            ELSE acc.similar_issues]

\* The loop over the first k issues
RECURSIVE ScanIssues(_, _, _, _)
ScanIssues(title, issues, threshold, k) ==
    IF k = 0
    THEN [exact_match |-> None, exact_match_url |-> NoUrl,
          highest_similarity |-> <<0, 1>>, highest_sim_issue |-> NoIssue,
          similar_issues |-> <<>>]
    ELSE ScanStep(ScanIssues(title, issues, threshold, k - 1), title, issues[k], threshold)

\* Mutant: the pull requests are scanned with the issues
find_similar_issues_unfiltered(title, all_issues, threshold) ==
    IF all_issues = <<>>
    THEN [number |-> None, url |-> NoUrl, similar |-> <<>>]
    ELSE LET acc == ScanIssues(title, all_issues, threshold, Len(all_issues))
             similar == SortDesc(acc.similar_issues)
         IN  IF /\ acc.exact_match = None
                /\ ScoreGt(acc.highest_similarity, HighSimilarity)
                /\ acc.highest_sim_issue # NoIssue
             THEN [number |-> acc.highest_sim_issue.number,
                   url |-> acc.highest_sim_issue.html_url,
                   similar |-> similar]
             ELSE [number |-> acc.exact_match, url |-> acc.exact_match_url,
                   similar |-> similar]

\* find_similar_issues once the list was fetched: all_issues is the response.
\* The result is (number, url, similar issues).
find_similar_issues(title, all_issues, threshold) ==
    LET issues == SelectSeq(all_issues, LAMBDA i : ~i.pull_request)
    IN  IF issues = <<>>
        THEN [number |-> None, url |-> NoUrl, similar |-> <<>>]
        ELSE LET acc == ScanIssues(title, issues, threshold, Len(issues))
                 similar == SortDesc(acc.similar_issues)
             IN  IF /\ acc.exact_match = None
                    /\ ScoreGt(acc.highest_similarity, HighSimilarity)
                    /\ acc.highest_sim_issue # NoIssue
                 THEN [number |-> acc.highest_sim_issue.number,
                       url |-> acc.highest_sim_issue.html_url,
                       similar |-> similar]
                 ELSE [number |-> acc.exact_match, url |-> acc.exact_match_url,
                       similar |-> similar]

(***************************************************************************)
(* scripts/start_task.py: find_related_issues                              *)
(***************************************************************************)

\* The 0.2 relevance threshold, in hundredths
RelevanceThreshold == 20

\* The keywords of a task title
Keywords(task_title) ==
    LET long == SelectSeq(Split(task_title), LAMBDA w : Len(w) > 3)
    IN  IF long = <<>>
        THEN <<Lower(task_title)>>
        ELSE [k \in 1..Len(long) |-> Lower(long[k])]

\* The relevance of one search result: <<0, 1>> when no word is shared
Relevance(keywords, item) ==
    LET title_words == Range(Split(Lower(item.title)))
        keywords_set == Range(keywords)
        common == Cardinality(title_words \cap keywords_set)
    IN  IF common > 0
        THEN <<common, Max(Cardinality(keywords_set), Cardinality(title_words))>>
        ELSE <<0, 1>>

RelatedEntry(item, relevance) ==
    [number |-> item.number, title |-> item.title, state |-> item.state,
     url |-> item.html_url, kind |-> "relevance", score |-> Round2(relevance)]

\* The loop over the search results
RECURSIVE RelatedOf(_, _, _)
RelatedOf(keywords, items, k) ==
    IF k = 0 THEN <<>>
    ELSE LET rest == RelatedOf(keywords, items, k - 1)
             item == items[k]
             relevance == Relevance(keywords, item)
         IN  IF /\ ~item.pull_request
                /\ relevance[1] > 0
                /\ ScoreGeq(relevance, RelevanceThreshold)
             THEN Append(rest, RelatedEntry(item, relevance))
             ELSE rest

\* find_related_issues once the search answered: items is the response
find_related_issues(task_title, items) ==
    IF Len(items) = 0
    THEN <<>>
    ELSE SortDesc(RelatedOf(Keywords(task_title), items, Len(items)))

\* Mutant: every related issue is added
MergeIssuesUnfiltered(similar, related) == SortDesc(similar \o related)

\* main: the similar issues, then the related issues not among them, sorted
\* by score, highest first
MergeIssues(similar, related) ==
    LET similar_numbers == { similar[k].number : k \in 1..Len(similar) }
    IN  SortDesc(similar \o SelectSeq(related, LAMBDA i : i.number \notin similar_numbers))

(***************************************************************************)
(* The inputs the checks range over                                        *)
(***************************************************************************)

fix == <<"f", "i", "x">>
Fix == <<"F", "i", "x">>
bug == <<"b", "u", "g">>
the == <<"t", "h", "e">>
The == <<"T", "h", "e">>
login == <<"l", "o", "g", "i", "n">>

RECURSIVE Join(_)
Join(ws) ==
    IF Len(ws) = 0 THEN <<>>
    ELSE IF Len(ws) = 1 THEN ws[1]
    ELSE ws[1] \o <<" ">> \o Join(Tail(ws))

\* The pairs of titles scored: up to MaxWords words of Vocab joined by
\* single spaces, the empty title and the title of one space.
MaxWords == 2

Vocab == {fix, Fix, bug, the, login}

Titles ==
    {<<>>, <<" ">>} \cup { Join(ws) : ws \in UNION { [1..n -> Vocab] : n \in 1..MaxWords } }

\* The task titles start_task is run with
TaskTitles == { Join(<<fix, login>>), Join(<<login, bug>>), the }

\* What the tracker holds: issues and pull requests, up to MaxIssues of them
MaxIssues == 2

TrackerItems ==
    { [title |-> Join(<<Fix, login>>), state |-> "open", pull_request |-> FALSE],
      [title |-> Join(<<login, fix>>), state |-> "closed", pull_request |-> FALSE],
      [title |-> Join(<<fix, login, bug>>), state |-> "open", pull_request |-> FALSE],
      [title |-> login, state |-> "open", pull_request |-> FALSE],
      [title |-> bug, state |-> "closed", pull_request |-> FALSE],
      [title |-> The, state |-> "closed", pull_request |-> FALSE],
      [title |-> Join(<<fix, login>>), state |-> "open", pull_request |-> TRUE] }

UrlOf(number) == <<"issues", number>>

\* A tracker listing, newest first: the item at position k of n has number n - k + 1
Listing(items) ==
    [k \in 1..Len(items) |->
        [number |-> Len(items) - k + 1, title |-> items[k].title,
         state |-> items[k].state, html_url |-> UrlOf(Len(items) - k + 1),
         pull_request |-> items[k].pull_request]]

Trackers ==
    { Listing(items) : items \in UNION { [1..n -> TrackerItems] : n \in 0..MaxIssues } }

\* Trackers that hold the same item several times, up to MaxRepeats times:
\* the lists of more than five similar issues come from these
MaxRepeats == 6

RepeatedItems ==
    { i \in TrackerItems :
        i.title \in {Join(<<Fix, login>>), Join(<<fix, login, bug>>), bug} /\ ~i.pull_request }

RepeatedTrackers ==
    { Listing([k \in 1..n |-> i]) : i \in RepeatedItems, n \in 0..MaxRepeats }

\* The thresholds find_similar_issues is called with, in hundredths
Thresholds == {40, DefaultThreshold, 90}

(***************************************************************************)
(* scripts/finish_task.py: the task records and the search by title        *)
(***************************************************************************)

\* A task record is the list of its lines.  '# text' is a title line,
\* '## name' a heading, '- text' an item, '' a blank line.
Line(kind, text) == [kind |-> kind, text |-> text]

TitleLine(title) == Line("title", title)

Blank == Line("blank", <<>>)

Heading(name) == Line("heading", <<name>>)

Item(text) == Line("item", text)

VerificationResults == Heading("Verification Results")

\* sys.argv[2] if len(sys.argv) > 2 else "Task completed successfully."
DefaultVerification == <<"Task completed successfully.">>

\* "## Verification Results" in content
HasVerificationResults(lines) ==
    \E k \in 1..Len(lines) : lines[k] = VerificationResults

\* f"# {task_title}\n\n## Task Details\n- **Issue:** #{issue_number}\n\n
\* ## Verification Results\n- {verification}\n"
CreatedRecord(title, text) ==
    <<TitleLine(title), Blank, Heading("Task Details"), Item(<<"Issue">>), Blank,
      VerificationResults, Item(text)>>

\* Mutant: the heading is written whether or not the record has it
AppendedRecordAlwaysHeading(lines, text) ==
    lines \o <<Blank, VerificationResults, Item(text)>>

\* The record after 'r+', read, seek(0, 2) and write
AppendedRecord(lines, text) ==
    IF HasVerificationResults(lines)
    THEN lines \o <<Item(text)>>
    ELSE lines \o <<Blank, VerificationResults, Item(text)>>

\* content.strip().split("\n")[0], with <<>> for the empty line
RECURSIVE FirstLine(_)
FirstLine(lines) ==
    IF lines = <<>> THEN Blank
    ELSE IF Head(lines) = Blank THEN FirstLine(Tail(lines))
    ELSE Head(lines)

\* first_line.startswith("# ") and first_line[2:].lower() == title.lower()
RecordMatches(lines, title) ==
    /\ FirstLine(lines).kind = "title"
    /\ Lower(FirstLine(lines).text) = Lower(title)

\* find_issues_by_title once the search answered: items is the response
find_issues_by_title(title, items) ==
    LET matching == SelectSeq(items, LAMBDA item : Lower(item.title) = Lower(title))
    IN  [k \in 1..Len(matching) |->
            [number |-> matching[k].number, title |-> matching[k].title,
             state |-> matching[k].state, url |-> matching[k].html_url]]

\* The record start_task writes for an issue
StartTaskRecord(title) ==
    <<TitleLine(title), Blank,
      Heading("Task Details"), Item(<<"Issue">>), Item(<<"URL">>), Item(<<"Created">>),
      Item(<<"AI Context Primer">>), Item(<<"AI Generated Code">>), Blank,
      Heading("Implementation Notes"), Item(<<"Describe">>), Item(<<"Reference">>), Blank,
      Heading("Testing Steps"), Item(<<"Outline">>), Item(<<"Consider">>), Blank,
      VerificationResults, Item(<<"Record the outcomes">>), Blank,
      Heading("Token Usage"), Item(<<"Token usage">>), Item(<<"Run">>)>>

\* The issues finish_task finds on the tracker
FinishItems ==
    { [title |-> Join(<<Fix, login>>), state |-> "open", pull_request |-> FALSE],
      [title |-> Join(<<fix, login>>), state |-> "closed", pull_request |-> FALSE],
      [title |-> login, state |-> "open", pull_request |-> FALSE] }

FinishTrackers ==
    { Listing(items) : items \in UNION { [1..n -> FinishItems] : n \in 0..MaxIssues } }

\* The issue numbers a task record may be for
RecordNumbers == 1..MaxIssues

NoFile == [exists |-> FALSE, lines |-> <<>>]

File(lines) == [exists |-> TRUE, lines |-> lines]

NoRecords == [n \in RecordNumbers |-> NoFile]

\* The records a task may have before finish_task is first run for it:
\* written by start_task, or by hand (a title and a line of text)
ExistingRecords ==
    { StartTaskRecord(Join(<<Fix, login>>)),
      <<TitleLine(Join(<<fix, login>>)), Line("text", <<"notes">>)>> }

\* finish_task runs for one task one after the other: up to MaxRuns runs
\* came before the run at hand
MaxRuns == 2

\* A record after k runs of finish_task that each appended to it
RECURSIVE AfterRuns(_, _)
AfterRuns(lines, k) ==
    IF k = 0 THEN lines
    ELSE AppendedRecord(AfterRuns(lines, k - 1), DefaultVerification)

\* docs/tasks with the one record, for issue n
OneRecord(n, lines) == [NoRecords EXCEPT ![n] = File(lines)]

Verifications == {DefaultVerification, <<"ok">>}

(***************************************************************************)
(* scripts/token_tracker.py: the summary                                   *)
(***************************************************************************)

\* The task ids, the API names and the months log_token_usage is called with
TaskIds == {"1", "2"}

ApiNames == {"gpt-4", "other"}

\* The calls of log_token_usage, up to MaxCalls, and the months they fall in
MaxCalls == 3

Months == 1..(MaxCalls + 1)

\* An entry of by_task, by_month or by_api; a key the dictionary does not
\* hold has present FALSE
NoEntry == [present |-> FALSE, total_tokens |-> 0, total_cost |-> 0, query_count |-> 0]

\* TokenTracker.create_new_summary.  Costs count tenths of a millionth of a
\* dollar; tips is len(summary['token_saving_tips'])
create_new_summary ==
    [total_tokens |-> 0, total_cost |-> 0, prompt_tokens |-> 0, completion_tokens |-> 0,
     by_task |-> [k \in TaskIds |-> NoEntry],
     by_month |-> [k \in Months |-> NoEntry],
     by_api |-> [k \in ApiNames |-> NoEntry],
     tips |-> 0]

(***************************************************************************)
(* State                                                                   *)
(***************************************************************************)

VARIABLES
    task_title,           \* sys.argv[1], and text1 of a scored pair
    issue_title,          \* text2 of a scored pair
    scores,               \* the scores of the pair (task_title, issue_title)
    tracker,              \* what the tracker lists: issues and pull requests
    similarity_threshold, \* find_similar_issues' parameter, in hundredths
    pc,                   \* where main is
    exact_match,          \* main: first result of find_similar_issues
    exact_url,            \* main: second result of find_similar_issues
    similar_issues,       \* main: third result of find_similar_issues
    issue_number,         \* main: the issue the task record is for
    issue_url,
    context_file,         \* main: whether collect_project_data gave a file
    related_issues,       \* main: result of find_related_issues
    all_issues,           \* main: the merged list
    attempt,              \* create_github_issue: the loop variable
    requests,             \* HTTP requests sent so far, per tracker call
    sleeps,               \* the asyncio.sleep waits so far, in seconds
    failed,               \* the tracker calls that returned their failure value
                          \* after an HTTP error status
    created,              \* the number of the issue this run created, or None
    choice,               \* main: what was typed at 'Choose an option (0-5)'
    task_files,           \* the issue numbers whose task record this run wrote
    verification,         \* finish_task: sys.argv[2], or the default text
    task_records,         \* docs/tasks/TASK-<n>.md: whether it exists, its lines
    comments,             \* the comments the tracker holds, oldest first
    matching_issues,      \* finish_task main: result of find_issues_by_title
    recommendation_files, \* finish_task main: "unset", "None", "md", "json"
    rec_file_rel_path,    \* finish_task main: "unbound", "None", "path"
    success,              \* finish_task main: "unset", "True", "False"
    effects,              \* what add_comment_and_close_issue did to the
                          \* tracker in this run: "comment", "close"
    quit,                 \* finish_task main: the user chose to end the run
    runs,                 \* the finish_task runs that wrote the record of the
                          \* task before this run
    method,               \* CollectorAgent: the method called
    depth,                \* CollectorAgent: the calls of the method in progress,
                          \* each awaiting the next
    waits,                \* CollectorAgent: the sleeps of handle_rate_limit
    limited,              \* CollectorAgent: every response so far was a rate
                          \* limit with its reset ahead
    result,               \* CollectorAgent: how the outermost call ended
    continue_chat,        \* chat_rag main: the loop condition
    show_debug,           \* chat_rag main
    user_input,           \* chat_rag main: the input read last
    asked,                \* chat_rag: the inputs passed to ask_rag_agent, each
                          \* with the number of the pass that read it
    turns,                \* chat_rag: the passes of the loop so far
    summary,              \* TokenTracker.summary
    calls,                \* TokenTracker: the log_token_usage calls that returned
    current_month,        \* TokenTracker: the month of datetime.now()
    uncaught,             \* the function an exception left uncaught, or "none"
    exit_code             \* "running", "0", "1"

vars ==
    <<task_title, issue_title, scores, tracker, similarity_threshold, pc,
      exact_match, exact_url, similar_issues, issue_number, issue_url,
      context_file, related_issues, all_issues, attempt, requests, sleeps,
      failed, created, choice, task_files, verification, task_records, comments,
      matching_issues, recommendation_files, rec_file_rel_path, success, effects,
      quit, runs, method, depth, waits, limited, result, continue_chat, show_debug,
      user_input, asked, turns, summary, calls, current_month, uncaught, exit_code>>

inputVars == <<task_title, issue_title, tracker, similarity_threshold>>

findVars == <<exact_match, exact_url, similar_issues>>

createVars == <<attempt, sleeps, created>>

\* What finish_task reads and writes
finishVars ==
    <<verification, task_records, comments, matching_issues, recommendation_files,
      rec_file_rel_path, success, effects, quit, runs>>

\* What chat_rag and TokenTracker read and write
chatVars == <<continue_chat, show_debug, user_input, asked, turns>>

tokenVars == <<summary, calls, current_month>>

toolVars == <<chatVars, tokenVars>>

\* What CollectorAgent reads and writes
agentVars == <<method, depth, waits, limited, result>>

\* What only start_task reads and writes
startVars ==
    <<issue_title, scores, similarity_threshold, findVars, issue_url, context_file,
      related_issues, all_issues, created, choice, task_files>>

Calls == {"list", "search", "create", "find", "check", "comment", "close"}

\* Nothing typed yet; num is int(choice) where int(choice) succeeds
NoChoice == [asked |-> FALSE, integer |-> FALSE, num |-> 0]

NoScores == [string |-> <<0, 1>>, token |-> <<0, 1>>, combined |-> <<0, 1>>]

\* finish_task was not run, and no method of CollectorAgent called
NoFinishTask ==
    /\ method = "none"
    /\ verification = DefaultVerification
    /\ task_records = NoRecords
    /\ comments = <<>>
    /\ runs = 0

\* The state main starts from, the inputs apart
Fresh ==
    /\ scores = NoScores
    /\ exact_match = None
    /\ exact_url = NoUrl
    /\ similar_issues = <<>>
    /\ issue_number = None
    /\ issue_url = NoUrl
    /\ context_file = FALSE
    /\ related_issues = <<>>
    /\ all_issues = <<>>
    /\ attempt = 0
    /\ requests = [c \in Calls |-> 0]
    /\ sleeps = <<>>
    /\ failed = {}
    /\ created = None
    /\ choice = NoChoice
    /\ task_files = {}
    /\ matching_issues = <<>>
    /\ recommendation_files = "unset"
    /\ rec_file_rel_path = "unbound"
    /\ success = "unset"
    /\ effects = {}
    /\ quit = FALSE
    /\ depth = 0
    /\ waits = <<>>
    /\ limited = TRUE
    /\ result = "pending"
    /\ continue_chat = TRUE
    /\ show_debug = FALSE
    /\ user_input = <<>>
    /\ asked = <<>>
    /\ turns = 0
    /\ summary = create_new_summary
    /\ calls = 0
    /\ current_month = 1
    /\ uncaught = "none"
    /\ exit_code = "running"

\* docs/tasks when start_task is run: empty, or with the record of one issue
\* that finish_task has written a verification to
RecordsAtStart ==
    {NoRecords} \cup
    { OneRecord(n, AppendedRecord(lines, DefaultVerification)) :
        n \in RecordNumbers, lines \in ExistingRecords }

Init ==
    /\ task_title \in TaskTitles
    /\ issue_title = <<>>
    /\ tracker \in Trackers
    /\ similarity_threshold = DefaultThreshold
    /\ pc = "load_config"
    /\ method = "none"
    /\ verification = DefaultVerification
    /\ task_records \in RecordsAtStart
    /\ comments = <<>>
    /\ runs = 0
    /\ Fresh

(***************************************************************************)
(* scripts/start_task.py: main, one action per step between two awaits     *)
(***************************************************************************)

\* sys.exit(code)
Exit(code) ==
    /\ pc' = "exited"
    /\ exit_code' = code

\* An exception no handler of the script catches: the traceback ends the run
Raise(function) ==
    /\ pc' = "exited"
    /\ uncaught' = function
    /\ exit_code' = "1"

\* config = await load_config(); if not config: sys.exit(1)
LoadConfig ==
    /\ pc = "load_config"
    /\ \/ pc' = "find_similar" /\ UNCHANGED exit_code
       \/ Exit("1")
    /\ UNCHANGED <<toolVars, agentVars, finishVars, inputVars, choice, scores, findVars, issue_number, issue_url, context_file,
                   related_issues, all_issues, createVars, requests, failed,
                   task_files, uncaught>>

\* exact_match, exact_url, similar_issues = await find_similar_issues(...):
\* one GET of the issue list
FindSimilarIssues ==
    /\ pc = "find_similar"
    /\ requests' = [requests EXCEPT !["list"] = @ + 1]
    /\ \/ \* the list arrives
          LET r == find_similar_issues(task_title, tracker, similarity_threshold)
          IN  /\ exact_match' = r.number
              /\ exact_url' = r.url
              /\ similar_issues' = r.similar
              /\ pc' = "decide"
              /\ UNCHANGED <<failed, uncaught, exit_code>>
       \/ \* raise_for_status raises httpx.HTTPStatusError: return None, None, []
          /\ failed' = failed \cup {"list"}
          /\ pc' = "decide"
          /\ UNCHANGED <<findVars, uncaught, exit_code>>
       \/ \* client.get raises a transport error (a timeout, no connection)
          /\ Raise("find_similar_issues")
          /\ UNCHANGED <<findVars, failed>>
    /\ UNCHANGED <<toolVars, agentVars, finishVars, inputVars, choice, scores, issue_number, issue_url, context_file,
                   related_issues, all_issues, createVars, task_files>>

\* if exact_match: 'Would you like to use this existing issue? (y/n)'
UseExisting ==
    /\ pc = "decide"
    /\ exact_match # None
    /\ \/ \* 'y'
          /\ issue_number' = exact_match
          /\ issue_url' = exact_url
          /\ pc' = "write_task_file"
          /\ UNCHANGED exit_code
       \/ \* anything else: sys.exit(0)
          /\ Exit("0")
          /\ UNCHANGED <<issue_number, issue_url>>
    /\ UNCHANGED <<toolVars, agentVars, finishVars, inputVars, choice, scores, findVars, context_file, related_issues,
                   all_issues, createVars, requests, failed, task_files, uncaught>>

\* The integers typed at 'Choose an option (0-5)'
ChoiceInputs == (0 - 1)..(Len(similar_issues) + 1)

\* Mutant: the whole list
Top5All(l) == l

\* similar_issues[:5]
Top5(l) == SubSeq(l, 1, IF Len(l) < 5 THEN Len(l) ELSE 5)

\* elif similar_issues: the options, and the choice
ChooseSimilar ==
    /\ pc = "decide"
    /\ exact_match = None
    /\ similar_issues # <<>>
    /\ \/ \* int(choice) succeeds
          \E choice_num \in ChoiceInputs :
             /\ choice' = [asked |-> TRUE, integer |-> TRUE, num |-> choice_num]
             /\ IF 1 <= choice_num /\ choice_num <= Len(Top5(similar_issues))
                THEN /\ issue_number' = similar_issues[choice_num].number
                     /\ issue_url' = similar_issues[choice_num].url
                     /\ pc' = "write_task_file"
                ELSE /\ pc' = "collect"
                     /\ UNCHANGED <<issue_number, issue_url>>
       \/ \* int(choice) raises ValueError: create a new issue
          /\ choice' = [asked |-> TRUE, integer |-> FALSE, num |-> 0]
          /\ pc' = "collect"
          /\ UNCHANGED <<issue_number, issue_url>>
    /\ UNCHANGED <<toolVars, agentVars, finishVars, inputVars, scores, findVars, context_file, related_issues,
                   all_issues, createVars, requests, failed, task_files, uncaught,
                   exit_code>>

\* Neither an exact match nor a similar issue
NoMatch ==
    /\ pc = "decide"
    /\ exact_match = None
    /\ similar_issues = <<>>
    /\ pc' = "collect"
    /\ UNCHANGED <<toolVars, agentVars, finishVars, inputVars, choice, scores, findVars, issue_number, issue_url, context_file,
                   related_issues, all_issues, createVars, requests, failed,
                   task_files, uncaught, exit_code>>

\* context_file, context_data = await context_task: collect_project_data
\* catches every exception and then returns None, None
CollectProjectData ==
    /\ pc = "collect"
    /\ context_file' \in BOOLEAN
    /\ pc' = "find_related"
    /\ UNCHANGED <<toolVars, agentVars, finishVars, inputVars, choice, scores, findVars, issue_number, issue_url,
                   related_issues, all_issues, createVars, requests, failed,
                   task_files, uncaught, exit_code>>

\* What the tracker's search may answer: some of its items, in their order
SearchResults ==
    { SelectSeq(tracker, LAMBDA i : i.number \in ns) :
        ns \in SUBSET { tracker[k].number : k \in 1..Len(tracker) } }

\* related_issues = await related_issues_task: one GET of the search, then
\* the merge of the similar and the related issues
FindRelatedIssues ==
    /\ pc = "find_related"
    /\ requests' = [requests EXCEPT !["search"] = @ + 1]
    /\ \/ \* the search answers
          \E items \in SearchResults :
             /\ related_issues' = find_related_issues(task_title, items)
             /\ all_issues' = MergeIssues(similar_issues, related_issues')
             /\ pc' = "create"
             /\ UNCHANGED <<failed, uncaught, exit_code>>
       \/ \* httpx.HTTPStatusError: return []
          /\ failed' = failed \cup {"search"}
          /\ related_issues' = <<>>
          /\ all_issues' = MergeIssues(similar_issues, <<>>)
          /\ pc' = "create"
          /\ UNCHANGED <<uncaught, exit_code>>
       \/ \* a transport error
          /\ Raise("find_related_issues")
          /\ UNCHANGED <<related_issues, all_issues, failed>>
    /\ UNCHANGED <<toolVars, agentVars, finishVars, inputVars, choice, scores, findVars, issue_number, issue_url, context_file,
                   createVars, task_files>>

\* Mutant: 2 * attempt
Pow2Doubled(n) == 2 * n

\* 2 ** attempt
RECURSIVE Pow2(_)
Pow2(n) == IF n = 0 THEN 1 ELSE 2 * Pow2(n - 1)

\* create_github_issue: one pass of 'for attempt in range(3)', one POST
CreateGithubIssue ==
    /\ pc = "create"
    /\ requests' = [requests EXCEPT !["create"] = @ + 1]
    /\ \/ \* the issue is created: return issue['number'], issue['html_url']
          /\ created' = Len(tracker) + 1
          /\ issue_number' = Len(tracker) + 1
          /\ issue_url' = UrlOf(Len(tracker) + 1)
          /\ pc' = "generate_code_stubs"
          /\ UNCHANGED <<attempt, sleeps, failed, uncaught, exit_code>>
       \/ \* httpx.HTTPStatusError, attempt < 2: sleep, next attempt
          /\ attempt < 2
          /\ sleeps' = Append(sleeps, Pow2(attempt))
          /\ attempt' = attempt + 1
          /\ UNCHANGED <<pc, created, issue_number, issue_url, failed, uncaught,
                         exit_code>>
       \/ \* httpx.HTTPStatusError at the last attempt: return None, None, and
          \* main exits with 1
          /\ attempt >= 2
          /\ failed' = failed \cup {"create"}
          /\ Exit("1")
          /\ UNCHANGED <<attempt, sleeps, created, issue_number, issue_url, uncaught>>
       \/ \* a transport error
          /\ Raise("create_github_issue")
          /\ UNCHANGED <<attempt, sleeps, created, issue_number, issue_url, failed>>
    /\ UNCHANGED <<toolVars, agentVars, finishVars, inputVars, choice, scores, findVars, context_file, related_issues,
                   all_issues, task_files>>

\* code_files = await generate_code_stubs(...): every exception is caught
GenerateCodeStubs ==
    /\ pc = "generate_code_stubs"
    /\ pc' = "write_task_file"
    /\ UNCHANGED <<toolVars, agentVars, finishVars, inputVars, choice, scores, findVars, issue_number, issue_url, context_file,
                   related_issues, all_issues, createVars, requests, failed,
                   task_files, uncaught, exit_code>>

\* docs/tasks after open(task_filename, "w") and f.write(task_template)
WrittenRecords(records, number, title) ==
    (number :> File(StartTaskRecord(title))) @@ records

\* if issue_number: write docs/tasks/TASK-<issue_number>.md; an exception of
\* makedirs, open or write is caught and printed.  main then returns.
WriteTaskFile ==
    /\ pc = "write_task_file"
    /\ \/ \* open(task_filename, "w") and write(task_template)
          /\ task_files' = task_files \cup {issue_number}
          /\ task_records' = WrittenRecords(task_records, issue_number, task_title)
       \/ UNCHANGED <<task_files, task_records>>
    /\ pc' = "exited"
    /\ exit_code' = "0"
    /\ UNCHANGED <<verification, comments, matching_issues, recommendation_files,
                   rec_file_rel_path, success, effects, quit, runs>>
    /\ UNCHANGED <<toolVars, agentVars, inputVars, choice, scores, findVars, issue_number, issue_url, context_file,
                   related_issues, all_issues, createVars, requests, failed, uncaught>>

Next ==
    \/ LoadConfig
    \/ FindSimilarIssues
    \/ UseExisting
    \/ ChooseSimilar
    \/ NoMatch
    \/ CollectProjectData
    \/ FindRelatedIssues
    \/ CreateGithubIssue
    \/ GenerateCodeStubs
    \/ WriteTaskFile

Spec == Init /\ [][Next]_vars

(***************************************************************************)
(* find_similar_issues alone, called with any threshold                    *)
(***************************************************************************)

InitFind ==
    /\ task_title \in TaskTitles
    /\ issue_title = <<>>
    /\ tracker \in Trackers
    /\ similarity_threshold \in Thresholds
    /\ pc = "find_similar"
    /\ NoFinishTask
    /\ Fresh

NextFind == FindSimilarIssues

SpecFind == InitFind /\ [][NextFind]_vars

(***************************************************************************)
(* The score of one pair of titles, as find_similar_issues computes it     *)
(***************************************************************************)

InitScore ==
    /\ task_title \in Titles
    /\ issue_title \in Titles
    /\ tracker = <<>>
    /\ similarity_threshold = DefaultThreshold
    /\ pc = "score"
    /\ NoFinishTask
    /\ Fresh

\* string_similarity, token_similarity and combined_similarity of the loop body
ScorePair ==
    /\ pc = "score"
    /\ scores' = [string |-> calculate_similarity(task_title, issue_title),
                  token |-> calculate_token_similarity(tokenize_text(task_title),
                                                       tokenize_text(issue_title)),
                  combined |-> combined_similarity(task_title, issue_title)]
    /\ pc' = "scored"
    /\ UNCHANGED <<toolVars, agentVars, finishVars, inputVars, choice, findVars, issue_number, issue_url, context_file,
                   related_issues, all_issues, createVars, requests, failed,
                   task_files, uncaught, exit_code>>

NextScore == ScorePair

SpecScore == InitScore /\ [][NextScore]_vars

(***************************************************************************)
(* main on a tracker that holds one item several times                     *)
(***************************************************************************)

InitPrompt ==
    /\ task_title \in TaskTitles
    /\ issue_title = <<>>
    /\ tracker \in RepeatedTrackers
    /\ similarity_threshold = DefaultThreshold
    /\ pc = "load_config"
    /\ NoFinishTask
    /\ Fresh

SpecPrompt == InitPrompt /\ [][Next]_vars

(***************************************************************************)
(* scripts/finish_task.py: main, one action per step between two awaits    *)
(***************************************************************************)

InitFinish ==
    /\ task_title \in TaskTitles
    /\ issue_title = <<>>
    /\ tracker \in FinishTrackers
    /\ similarity_threshold = DefaultThreshold
    /\ verification \in Verifications
    /\ method = "none"
    /\ comments = <<>>
    /\ \/ \* no record yet
          /\ task_records = NoRecords
          /\ runs = 0
       \/ \* a record, which earlier runs appended to
          \E n \in RecordNumbers, lines \in ExistingRecords, k \in 0..MaxRuns :
             /\ task_records = OneRecord(n, AfterRuns(lines, k))
             /\ runs = k
       \/ \* a record that the first of the earlier runs created
          \E n \in RecordNumbers, k \in 1..MaxRuns :
             /\ task_records =
                    OneRecord(n, AfterRuns(CreatedRecord(task_title, DefaultVerification), k - 1))
             /\ runs = k
    /\ pc = "finish_load_config"
    /\ Fresh

\* config = await load_config(); if not config: sys.exit(1)
FinishLoadConfig ==
    /\ pc = "finish_load_config"
    /\ \/ pc' = "find_local" /\ UNCHANGED exit_code
       \/ Exit("1")
    /\ UNCHANGED <<toolVars, agentVars, startVars, finishVars, task_title, tracker, issue_number, attempt,
                   requests, sleeps, failed, uncaught>>

\* The records whose first line is the title of the task
LocalMatches ==
    { n \in RecordNumbers :
        task_records[n].exists /\ RecordMatches(task_records[n].lines, task_title) }

\* issue_number = find_issue_from_local_files(task_title): the first record
\* of glob.glob's list that matches, in whatever order glob lists the files
FindIssueFromLocalFiles ==
    /\ pc = "find_local"
    /\ IF LocalMatches # {}
       THEN /\ issue_number' \in LocalMatches
            /\ pc' = "record"
       ELSE /\ pc' = "find_issues"
            /\ UNCHANGED issue_number
    /\ UNCHANGED <<toolVars, agentVars, startVars, finishVars, task_title, tracker, attempt, requests,
                   sleeps, failed, uncaught, exit_code>>

\* find_issues_by_title: one pass of 'for attempt in range(3)', one GET
FindIssuesByTitle ==
    /\ pc = "find_issues"
    /\ requests' = [requests EXCEPT !["find"] = @ + 1]
    /\ \/ \* the search answers
          \E items \in SearchResults :
             /\ matching_issues' = find_issues_by_title(task_title, items)
             /\ pc' = "select"
             /\ UNCHANGED <<attempt, sleeps, failed, uncaught, exit_code>>
       \/ \* httpx.HTTPStatusError, attempt < 2: sleep, next attempt
          /\ attempt < 2
          /\ sleeps' = Append(sleeps, Pow2(attempt))
          /\ attempt' = attempt + 1
          /\ UNCHANGED <<pc, matching_issues, failed, uncaught, exit_code>>
       \/ \* httpx.HTTPStatusError at the last attempt: return []
          /\ attempt >= 2
          /\ failed' = failed \cup {"find"}
          /\ matching_issues' = <<>>
          /\ pc' = "select"
          /\ UNCHANGED <<attempt, sleeps, uncaught, exit_code>>
       \/ \* a transport error
          /\ Raise("find_issues_by_title")
          /\ UNCHANGED <<attempt, sleeps, matching_issues, failed>>
    /\ UNCHANGED <<toolVars, agentVars, startVars, task_title, tracker, issue_number, verification,
                   task_records, comments, recommendation_files, rec_file_rel_path,
                   success, effects, quit, runs>>

\* The integers typed at 'Enter the number of the issue to close'
SelectionInputs == 0..(Len(matching_issues) + 1)

\* main: no match, several matches and the choice, or the one match and,
\* when it is closed, 'update the local task file anyway?'
SelectIssue ==
    /\ pc = "select"
    /\ \/ \* if not matching_issues: sys.exit(1)
          /\ matching_issues = <<>>
          /\ Exit("1")
          /\ UNCHANGED <<issue_number, quit>>
       \/ \* 'q': sys.exit(0)
          /\ Len(matching_issues) > 1
          /\ quit' = TRUE
          /\ Exit("0")
          /\ UNCHANGED issue_number
       \/ \* int(choice) succeeds
          /\ Len(matching_issues) > 1
          /\ \E choice_num \in SelectionInputs :
                LET selected == choice_num - 1
                IN  IF 0 <= selected /\ selected < Len(matching_issues)
                    THEN /\ issue_number' = matching_issues[selected + 1].number
                         /\ pc' = "record"
                         /\ UNCHANGED <<exit_code, quit>>
                    ELSE /\ Exit("1")
                         /\ UNCHANGED <<issue_number, quit>>
       \/ \* int(choice) raises ValueError: sys.exit(1)
          /\ Len(matching_issues) > 1
          /\ Exit("1")
          /\ UNCHANGED <<issue_number, quit>>
       \/ \* the one match, open; or closed and 'y'
          /\ Len(matching_issues) = 1
          /\ issue_number' = matching_issues[1].number
          /\ pc' = "record"
          /\ UNCHANGED <<exit_code, quit>>
       \/ \* the one match, closed, and not 'y': sys.exit(0)
          /\ Len(matching_issues) = 1
          /\ matching_issues[1].state = "closed"
          /\ issue_number' = matching_issues[1].number
          /\ quit' = TRUE
          /\ Exit("0")
    /\ UNCHANGED <<toolVars, agentVars, startVars, task_title, tracker, attempt, requests, sleeps, failed,
                   uncaught, verification, task_records, comments, matching_issues,
                   recommendation_files, rec_file_rel_path, success, effects, runs>>

\* main: create docs/tasks/TASK-<issue_number>.md on 'y', or append the
\* verification to it; an exception of open or write is caught and printed
UpdateTaskRecord ==
    /\ pc = "record"
    /\ LET record == task_records[issue_number]
       IN  \/ \* no record; 'y', and the record is written
              /\ ~record.exists
              /\ task_records' =
                    [task_records EXCEPT
                        ![issue_number] = File(CreatedRecord(task_title, verification))]
           \/ \* the record is there, and is appended to
              /\ record.exists
              /\ task_records' =
                    [task_records EXCEPT
                        ![issue_number] = File(AppendedRecord(record.lines, verification))]
           \/ \* not 'y', or open raised
              UNCHANGED task_records
    /\ pc' = "recommend"
    /\ UNCHANGED <<toolVars, agentVars, startVars, task_title, tracker, issue_number, attempt, requests,
                   sleeps, failed, uncaught, exit_code, verification, comments,
                   matching_issues, recommendation_files, rec_file_rel_path, success,
                   effects, quit, runs>>

\* code_files, recommendation_files and index_file: the recommendations are
\* None (or empty), a list with a .md file or a list without one; the index
\* is written or update_ai_recommendations_index returns None
GenerateRecommendations ==
    /\ pc = "recommend"
    /\ \E files \in {"None", "md", "json"} :
          /\ recommendation_files' = files
          /\ IF files = "None"
             THEN rec_file_rel_path' = "None"
             ELSE \/ \* if index_file
                     rec_file_rel_path' = (IF files = "md" THEN "path" ELSE "None")
                  \/ \* index_file is None: nothing is assigned
                     UNCHANGED rec_file_rel_path
    /\ pc' = "prepare_comment"
    /\ UNCHANGED <<toolVars, agentVars, startVars, task_title, tracker, issue_number, attempt, requests,
                   sleeps, failed, uncaught, exit_code, verification, task_records,
                   comments, matching_issues, success, effects, quit, runs>>

\* comment = ...; if rec_file_rel_path: ...
PrepareComment ==
    /\ pc = "prepare_comment"
    /\ IF rec_file_rel_path = "unbound"
       THEN /\ Raise("main")
            /\ UNCHANGED attempt
       ELSE /\ pc' = "check"
            /\ attempt' = 0
            /\ UNCHANGED <<uncaught, exit_code>>
    /\ UNCHANGED <<toolVars, agentVars, startVars, finishVars, task_title, tracker, issue_number, requests,
                   sleeps, failed>>

\* The places of the issue in the tracker's list: none when it does not exist
IssuePlaces == { k \in 1..Len(tracker) : tracker[k].number = issue_number }

\* Mutant: after the third failure the function goes on to its next step
RequestFailedGoesOn(call) ==
    \/ /\ attempt < 2
       /\ sleeps' = Append(sleeps, Pow2(attempt))
       /\ attempt' = attempt + 1
       /\ UNCHANGED <<pc, failed, success, uncaught, exit_code>>
    \/ /\ attempt >= 2
       /\ failed' = failed \cup {call}
       /\ pc' = (IF call = "check" THEN "comment"
                 ELSE IF call = "comment" THEN "close" ELSE "report")
       /\ attempt' = 0
       /\ UNCHANGED <<success, sleeps, uncaught, exit_code>>

\* except httpx.HTTPStatusError of one of the three loops of
\* add_comment_and_close_issue: sleep and go on, or return False
RequestFailed(call) ==
    \/ /\ attempt < 2
       /\ sleeps' = Append(sleeps, Pow2(attempt))
       /\ attempt' = attempt + 1
       /\ UNCHANGED <<pc, failed, success, uncaught, exit_code>>
    \/ /\ attempt >= 2
       /\ failed' = failed \cup {call}
       /\ success' = "False"
       /\ pc' = "report"
       /\ UNCHANGED <<attempt, sleeps, uncaught, exit_code>>

\* add_comment_and_close_issue, first loop: one GET of the issue
CheckIssue ==
    /\ pc = "check"
    /\ requests' = [requests EXCEPT !["check"] = @ + 1]
    /\ \/ \* the issue is closed: return False, "Issue is already closed"
          /\ \E k \in IssuePlaces : tracker[k].state = "closed"
          /\ success' = "False"
          /\ pc' = "report"
          /\ UNCHANGED <<attempt, sleeps, failed, uncaught, exit_code>>
       \/ \* the issue is open: break
          /\ \E k \in IssuePlaces : tracker[k].state # "closed"
          /\ pc' = "comment"
          /\ attempt' = 0
          /\ UNCHANGED <<sleeps, failed, success, uncaught, exit_code>>
       \/ RequestFailed("check")
       \/ \* a transport error
          /\ Raise("add_comment_and_close_issue")
          /\ UNCHANGED <<attempt, sleeps, failed, success>>
    /\ UNCHANGED <<toolVars, agentVars, startVars, task_title, tracker, issue_number, verification,
                   task_records, comments, matching_issues, recommendation_files,
                   rec_file_rel_path, effects, quit, runs>>

\* add_comment_and_close_issue, second loop: one POST of the comment
PostComment ==
    /\ pc = "comment"
    /\ requests' = [requests EXCEPT !["comment"] = @ + 1]
    /\ \/ \* the comment is added: break
          /\ IssuePlaces # {}
          /\ comments' = Append(comments, [number |-> issue_number,
                                           body |-> verification,
                                           insights |-> rec_file_rel_path = "path"])
          /\ effects' = effects \cup {"comment"}
          /\ pc' = "close"
          /\ attempt' = 0
          /\ UNCHANGED <<sleeps, failed, success, uncaught, exit_code>>
       \/ /\ RequestFailed("comment")
          /\ UNCHANGED <<comments, effects>>
       \/ \* a transport error
          /\ Raise("add_comment_and_close_issue")
          /\ UNCHANGED <<attempt, sleeps, failed, success, comments, effects>>
    /\ UNCHANGED <<toolVars, agentVars, startVars, task_title, tracker, issue_number, verification,
                   task_records, matching_issues, recommendation_files,
                   rec_file_rel_path, quit, runs>>

\* add_comment_and_close_issue, third loop: one PATCH of the state
CloseIssue ==
    /\ pc = "close"
    /\ requests' = [requests EXCEPT !["close"] = @ + 1]
    /\ \/ \* the issue is closed: return True, "Success"
          /\ IssuePlaces # {}
          /\ tracker' = [k \in 1..Len(tracker) |->
                            IF k \in IssuePlaces
                            THEN [tracker[k] EXCEPT !.state = "closed"]
                            ELSE tracker[k]]
          /\ effects' = effects \cup {"close"}
          /\ success' = "True"
          /\ pc' = "report"
          /\ UNCHANGED <<attempt, sleeps, failed, uncaught, exit_code>>
       \/ /\ RequestFailed("close")
          /\ UNCHANGED <<tracker, effects>>
       \/ \* a transport error
          /\ Raise("add_comment_and_close_issue")
          /\ UNCHANGED <<attempt, sleeps, failed, success, tracker, effects>>
    /\ UNCHANGED <<toolVars, agentVars, startVars, task_title, issue_number, verification, task_records,
                   comments, matching_issues, recommendation_files, rec_file_rel_path,
                   quit, runs>>

\* if success: print(...) else: print(...); main returns
Report ==
    /\ pc = "report"
    /\ pc' = "exited"
    /\ exit_code' = "0"
    /\ UNCHANGED <<toolVars, agentVars, startVars, finishVars, task_title, tracker, issue_number, attempt,
                   requests, sleeps, failed, uncaught>>

NextFinish ==
    \/ FinishLoadConfig
    \/ FindIssueFromLocalFiles
    \/ FindIssuesByTitle
    \/ SelectIssue
    \/ UpdateTaskRecord
    \/ GenerateRecommendations
    \/ PrepareComment
    \/ CheckIssue
    \/ PostComment
    \/ CloseIssue
    \/ Report

SpecFinish == InitFinish /\ [][NextFinish]_vars

(***************************************************************************)
(* scripts/ai_agents.py: CollectorAgent.get_readme, get_recent_commits,    *)
(* get_issues                                                              *)
(***************************************************************************)

Methods == {"get_readme", "get_recent_commits", "get_issues"}

\* What the tracker answers: the status, whether X-RateLimit-Remaining is
\* among the headers and its value, and X-RateLimit-Reset less time.time()
Responses ==
    [status : {200, 403, 500}, rate_limit_headers : BOOLEAN, remaining : {0, 5},
     reset_in : {0 - 2, 0, 3}]

\* sleep_time = reset_time - current_time + 1
SleepTime(response) == response.reset_in + 1

\* BaseAgent.handle_rate_limit: whether it slept and returned True
handle_rate_limit(response) ==
    /\ response.status = 403
    /\ response.rate_limit_headers
    /\ response.remaining = 0
    /\ SleepTime(response) > 0

\* The calls that can await one another before the interpreter raises
\* RecursionError (sys.getrecursionlimit() frames in Python)
RecursionLimit == 4

InitAgent ==
    /\ task_title \in TaskTitles
    /\ issue_title = <<>>
    /\ tracker = <<>>
    /\ similarity_threshold = DefaultThreshold
    /\ verification = DefaultVerification
    /\ task_records = NoRecords
    /\ comments = <<>>
    /\ runs = 0
    /\ method \in Methods
    /\ pc = "agent_call"
    /\ Fresh

\* One call of the method: the GET, handle_rate_limit, and then the call of
\* the method again, or raise_for_status and the return
AgentCall ==
    /\ pc = "agent_call"
    /\ \/ \E response \in Responses :
             IF handle_rate_limit(response)
             THEN \* return await self.get_...(): the next call
                  /\ waits' = Append(waits, SleepTime(response))
                  /\ UNCHANGED limited
                  /\ IF depth + 1 < RecursionLimit
                     THEN /\ depth' = depth + 1
                          /\ UNCHANGED <<pc, result>>
                     ELSE /\ result' = "RecursionError"
                          /\ pc' = "agent_done"
                          /\ UNCHANGED depth
             ELSE \* raise_for_status, and the value or the failure value
                  /\ result' = (IF response.status = 200 THEN "value" ELSE "failure")
                  /\ limited' = FALSE
                  /\ pc' = "agent_done"
                  /\ UNCHANGED <<depth, waits>>
       \/ \* client.get raises a transport error
          /\ result' = "TransportError"
          /\ limited' = FALSE
          /\ pc' = "agent_done"
          /\ UNCHANGED <<depth, waits>>
    /\ UNCHANGED <<toolVars, startVars, task_title, tracker, issue_number, attempt,
                   requests, sleeps, failed, uncaught, exit_code, verification,
                   task_records, comments, matching_issues, recommendation_files,
                   rec_file_rel_path, success, effects, quit, runs, method>>

NextAgent == AgentCall

SpecAgent == InitAgent /\ [][NextAgent]_vars

(***************************************************************************)
(* rag_agent/chat_rag.py: handle_command and the chat loop of main         *)
(***************************************************************************)

SlashExit == <<"/", "e", "x", "i", "t">>
SlashExitUpper == <<"/", "E", "x", "i", "t">>
SlashQuit == <<"/", "q", "u", "i", "t">>
WordExit == <<"e", "x", "i", "t">>
WordQuit == <<"q", "u", "i", "t">>
WordQuitUpper == <<"Q", "u", "i", "t">>
SlashHelp == <<"/", "h", "e", "l", "p">>
SlashClear == <<"/", "c", "l", "e", "a", "r">>
SlashDebug == <<"/", "d", "e", "b", "u", "g">>

\* What is typed at 'You:'
ChatInputs ==
    { SlashExit, SlashExitUpper, SlashQuit, WordExit, WordQuit, WordQuitUpper,
      SlashHelp, SlashClear, SlashDebug, <<"/", "x">>, <<>>, <<" ">>, <<"h", "i">> }

\* The passes of the chat loop, up to MaxTurns
MaxTurns == 3

\* not user_input.strip()
IsBlank(text) == \A k \in 1..Len(text) : text[k] = " "

\* user_input.startswith('/')
IsCommand(text) == Len(text) > 0 /\ text[1] = "/"

\* handle_command: (continue_chat, show_debug)
handle_command(command, debug) ==
    IF Lower(command) \in {SlashExit, WordExit, WordQuit, SlashQuit}
    THEN <<FALSE, debug>>
    ELSE IF Lower(command) = SlashDebug
    THEN <<TRUE, ~debug>>
    ELSE <<TRUE, debug>>

InitChat ==
    /\ task_title = <<>>
    /\ issue_title = <<>>
    /\ tracker = <<>>
    /\ similarity_threshold = DefaultThreshold
    /\ NoFinishTask
    /\ pc = "chat"
    /\ Fresh

\* One pass of 'while continue_chat' in which an input is read: a blank
\* input is skipped, a command is handled, anything else is a question for
\* ask_rag_agent, whose exceptions the loop catches
ChatTurn ==
    /\ pc = "chat"
    /\ continue_chat
    /\ turns < MaxTurns
    /\ turns' = turns + 1
    /\ \E text \in ChatInputs :
          /\ user_input' = text
          /\ IF IsBlank(text)
             THEN UNCHANGED <<continue_chat, show_debug, asked>>
             ELSE IF IsCommand(text)
             THEN /\ continue_chat' = handle_command(text, show_debug)[1]
                  /\ show_debug' = handle_command(text, show_debug)[2]
                  /\ UNCHANGED asked
             ELSE /\ asked' = Append(asked, [turn |-> turns + 1, text |-> text])
                  /\ UNCHANGED <<continue_chat, show_debug>>
    /\ UNCHANGED <<tokenVars, agentVars, finishVars, startVars, task_title, tracker,
                   pc, issue_number, attempt, requests, sleeps, failed, uncaught,
                   exit_code>>

\* continue_chat is False: return 0, and sys.exit(main())
ChatReturn ==
    /\ pc = "chat"
    /\ ~continue_chat
    /\ pc' = "exited"
    /\ exit_code' = "0"
    /\ UNCHANGED <<toolVars, agentVars, finishVars, startVars, task_title, tracker,
                   issue_number, attempt, requests, sleeps, failed, uncaught>>

NextChat == ChatTurn \/ ChatReturn

SpecChat == InitChat /\ [][NextChat]_vars

(***************************************************************************)
(* scripts/token_tracker.py: TokenTracker.log_token_usage                  *)
(***************************************************************************)

\* The token counts of a call
PromptCounts == {0, 7, 4001}

CompletionCounts == {0, 3}

\* cost_rates.get(api_name, cost_rates['default']), per token
Rate(api_name) ==
    IF api_name = "gpt-4"
    THEN [prompt |-> 300, completion |-> 600]
    ELSE [prompt |-> 50, completion |-> 150]

\* Mutant: query_count is set to 1
UpdatedEntryCountOnce(entry, total_tokens, estimated_cost) ==
    [present |-> TRUE,
     total_tokens |-> entry.total_tokens + total_tokens,
     total_cost |-> entry.total_cost + estimated_cost,
     query_count |-> 1]

\* An entry of by_task, by_month or by_api after 'if key not in ...' and
\* the three '+='
UpdatedEntry(entry, total_tokens, estimated_cost) ==
    [present |-> TRUE,
     total_tokens |-> entry.total_tokens + total_tokens,
     total_cost |-> entry.total_cost + estimated_cost,
     query_count |-> entry.query_count + 1]

\* if prompt_tokens > 4000
LargePrompt == 4000

\* len(self.summary['token_saving_tips']) > 10
TipsKept == 10

\* generate_token_saving_tips: the number of tips afterwards
generate_token_saving_tips(tips, prompt_tokens) ==
    LET added == IF prompt_tokens > LargePrompt THEN tips + 1 ELSE tips
    IN  IF added > TipsKept THEN TipsKept ELSE added

\* The summary after the updates of log_token_usage
LoggedSummary(old, task_id, api_name, month, prompt_tokens, completion_tokens) ==
    LET total_tokens == prompt_tokens + completion_tokens
        estimated_cost == prompt_tokens * Rate(api_name).prompt
                          + completion_tokens * Rate(api_name).completion
    IN  [total_tokens |-> old.total_tokens + total_tokens,
         total_cost |-> old.total_cost + estimated_cost,
         prompt_tokens |-> old.prompt_tokens + prompt_tokens,
         completion_tokens |-> old.completion_tokens + completion_tokens,
         by_task |-> [old.by_task EXCEPT
                        ![task_id] = UpdatedEntry(@, total_tokens, estimated_cost)],
         by_month |-> [old.by_month EXCEPT
                        ![month] = UpdatedEntry(@, total_tokens, estimated_cost)],
         by_api |-> [old.by_api EXCEPT
                        ![api_name] = UpdatedEntry(@, total_tokens, estimated_cost)],
         tips |-> generate_token_saving_tips(old.tips, prompt_tokens)]

InitTokens ==
    /\ task_title = <<>>
    /\ issue_title = <<>>
    /\ tracker = <<>>
    /\ similarity_threshold = DefaultThreshold
    /\ NoFinishTask
    /\ pc = "log_token_usage"
    /\ Fresh

\* One call of log_token_usage, in the month of the call before or in the
\* month after it
LogTokenUsage ==
    /\ pc = "log_token_usage"
    /\ calls < MaxCalls
    /\ \E month \in {current_month, current_month + 1} :
          /\ current_month' = month
          /\ \/ \* the row is written and the summary updated
                \E task_id \in TaskIds, api_name \in ApiNames,
                   prompt_tokens \in PromptCounts, completion_tokens \in CompletionCounts :
                   /\ summary' = LoggedSummary(summary, task_id, api_name, month,
                                               prompt_tokens, completion_tokens)
                   /\ calls' = calls + 1
                   /\ UNCHANGED <<pc, uncaught, exit_code>>
             \/ \* open or writerow raises before the summary is touched
                /\ Raise("log_token_usage")
                /\ UNCHANGED <<summary, calls>>
    /\ UNCHANGED <<chatVars, agentVars, finishVars, startVars, task_title, tracker,
                   issue_number, attempt, requests, sleeps, failed>>

NextTokens == LogTokenUsage

SpecTokens == InitTokens /\ [][NextTokens]_vars

(***************************************************************************)
(* Properties                                                              *)
(***************************************************************************)

\* find_similar_issues fetched the list and returned its three results
ListReturned ==
    /\ requests["list"] > 0
    /\ "list" \notin failed
    /\ uncaught # "find_similar_issues"

\* The fetched list with the pull requests removed
FetchedIssues == SelectSeq(tracker, LAMBDA i : ~i.pull_request)

\* The positions of the issues whose title equals the task title ignoring case
ExactPositions ==
    { k \in 1..Len(FetchedIssues) : Lower(FetchedIssues[k].title) = Lower(task_title) }

ScoreOf(k) == combined_similarity(task_title, FetchedIssues[k].title)

\* The positions of the issues whose score no other issue exceeds
MaxPositions ==
    { k \in 1..Len(FetchedIssues) :
        \A j \in 1..Len(FetchedIssues) : ~ScoreLess(ScoreOf(k), ScoreOf(j)) }

FirstOf(S) == CHOOSE k \in S : \A j \in S : k <= j

\* C1: when the fetched list holds an issue whose title equals the task title
\* ignoring case, the number and URL returned are those of such an issue,
\* whatever the other issues and their scores.
C1_ExactMatchReturned ==
    (ListReturned /\ ExactPositions # {}) =>
        \E k \in ExactPositions :
            /\ exact_match = FetchedIssues[k].number
            /\ exact_url = FetchedIssues[k].html_url

\* An exact match is returned although another issue, of another title,
\* scores above 0.85.
C1_Witness ==
    /\ ListReturned
    /\ ExactPositions # {}
    /\ exact_match \in { FetchedIssues[k].number : k \in ExactPositions }
    /\ \E j \in (1..Len(FetchedIssues)) \ ExactPositions :
            ScoreGt(ScoreOf(j), HighSimilarity)

\* The number of distinct tokens of the task title
TokenCount == Cardinality(Range(tokenize_text(task_title)))

SameScore(s, t) == s[1] * t[2] = t[1] * s[2]

\* A non-empty title was scored against itself
SelfScored == pc = "scored" /\ task_title = issue_title /\ task_title # <<>>

\* C2 as stated: the combined similarity of (t, t) is exactly 1.0 for every
\* non-empty title t.
C2_SelfScoreIsOne == SelfScored => SameScore(scores.combined, <<1, 1>>)

\* C2, amended: for a non-empty title t the character-level similarity of
\* (t, t) is exactly 1.0, and the combined similarity is 0.4 when t yields no
\* token and 1.0 + 0.06 * n when it yields n >= 1 distinct tokens.
C2_SelfScore ==
    SelfScored =>
        /\ SameScore(scores.string, <<1, 1>>)
        /\ IF TokenCount = 0
           THEN SameScore(scores.combined, <<40, 100>>)
           ELSE SameScore(scores.combined, <<100 + 6 * TokenCount, 100>>)

\* Both cases of the amended C2 were scored: a title of stop words only, and
\* a title of two distinct tokens.
C2_Witness == SelfScored /\ TokenCount = 2

C2_WitnessNoToken == SelfScored /\ TokenCount = 0

\* C3: the combined similarity of every pair of titles, and the similarity
\* stored for it, lie in [0, 1].
C3_ScoreInUnitInterval ==
    pc = "scored" =>
        /\ scores.combined[1] >= 0
        /\ ScoreGeq(<<1, 1>>, Round2(scores.combined))
        /\ ~ScoreLess(<<1, 1>>, scores.combined)

\* The merge step of main ran
Merged == requests["search"] > 0 /\ uncaught # "find_related_issues"

NumbersOf(l) == { l[k].number : k \in 1..Len(l) }

\* C4: the merged list holds each issue number at most once, and an issue
\* number of the similarity list appears only as its similarity entry, with
\* the similarity score.
C4_MergeNoDuplicates ==
    Merged =>
        /\ \A i, j \in 1..Len(all_issues) :
                all_issues[i].number = all_issues[j].number => i = j
        /\ \A i \in 1..Len(all_issues) :
                all_issues[i].number \in NumbersOf(similar_issues) =>
                    \E k \in 1..Len(similar_issues) : all_issues[i] = similar_issues[k]
        /\ NumbersOf(all_issues) = NumbersOf(similar_issues) \cup NumbersOf(related_issues)

\* An issue was found by both searches, with two different scores.
C4_Witness ==
    /\ Merged
    /\ \E i \in 1..Len(similar_issues) : \E j \in 1..Len(related_issues) :
            /\ similar_issues[i].number = related_issues[j].number
            /\ similar_issues[i].score # related_issues[j].score

\* C5: a run that created an issue ends with the task record of that issue
\* written.
C5_CreatedIssueHasRecord ==
    (pc = "exited" /\ created # None) => created \in task_files

\* C6: when no title equals the task title ignoring case, a number is
\* returned exactly when the highest score exceeds 0.85, and it is the number
\* of the first issue with the highest score.
C6_HighConfidence ==
    (ListReturned /\ ExactPositions = {}) =>
        IF MaxPositions # {} /\ ScoreGt(ScoreOf(FirstOf(MaxPositions)), HighSimilarity)
        THEN /\ exact_match = FetchedIssues[FirstOf(MaxPositions)].number
             /\ exact_url = FetchedIssues[FirstOf(MaxPositions)].html_url
        ELSE exact_match = None /\ exact_url = NoUrl

\* Two issues share the highest score, above 0.85, and the first is returned.
C6_Witness ==
    /\ ListReturned
    /\ ExactPositions = {}
    /\ Cardinality(MaxPositions) >= 2
    /\ exact_match = FetchedIssues[FirstOf(MaxPositions)].number

\* The highest score is at most 0.85 although an issue reaches the threshold,
\* and no number is returned.
C6_WitnessNone ==
    /\ ListReturned
    /\ ExactPositions = {}
    /\ similar_issues # <<>>
    /\ exact_match = None

\* The positions of the issues that reach the threshold
ReachingThreshold ==
    { k \in 1..Len(FetchedIssues) : ScoreGeq(ScoreOf(k), similarity_threshold) }

\* C7: the similar issues returned are exactly the issues whose score is at
\* least the threshold, each once, with the rounded score, in non-increasing
\* order of it.
C7_SimilarIssues ==
    ListReturned =>
        /\ NumbersOf(similar_issues) = { FetchedIssues[k].number : k \in ReachingThreshold }
        /\ Len(similar_issues) = Cardinality(ReachingThreshold)
        /\ \A i \in 1..Len(similar_issues) : \E k \in ReachingThreshold :
                /\ similar_issues[i].number = FetchedIssues[k].number
                /\ similar_issues[i].score = Round2(ScoreOf(k))
        /\ \A i \in 1..(Len(similar_issues) - 1) :
                similar_issues[i].score >= similar_issues[i + 1].score
        /\ (similar_issues = <<>>) = (ReachingThreshold = {})

\* An issue scoring exactly the threshold is in the list, which holds two
\* entries.
C7_Witness ==
    /\ ListReturned
    /\ \E k \in ReachingThreshold :
            /\ SameScore(ScoreOf(k), <<similarity_threshold, 100>>)
            /\ FetchedIssues[k].number \in NumbersOf(similar_issues)
    /\ Len(similar_issues) >= 2

\* C8: of several issues whose title equals the task title ignoring case, the
\* first in list order is returned.
C8_FirstExactMatch ==
    (ListReturned /\ Cardinality(ExactPositions) >= 2) =>
        exact_match = FetchedIssues[FirstOf(ExactPositions)].number

\* C9: a tracker call returns its failure value after an HTTP error status
\* only when 3 requests were sent.
C9_ThreeAttempts == \A c \in failed : requests[c] = 3

\* C10: no exception leaves a tracker-calling function uncaught.
C10_NoUncaught == uncaught = "none"

\* C12: when the fetch of the issue list fails with an HTTP error status,
\* the run creates no issue and ends with exit code 1
C12_FetchFailureStops ==
    "list" \in failed =>
        /\ created = None
        /\ pc = "exited" => exit_code = "1"

ChoiceInRange ==
    /\ choice.integer
    /\ 1 <= choice.num
    /\ choice.num <= (IF Len(similar_issues) < 5 THEN Len(similar_issues) ELSE 5)

\* C17: at the similar-issues prompt an integer k of 1..min(5, number of
\* similar issues) selects the k-th listed issue, and every other input goes
\* on to create a new issue: no listed issue is selected and no exception
\* leaves main
C17_Prompt ==
    choice.asked =>
        IF ChoiceInRange
        THEN /\ issue_number = similar_issues[choice.num].number
             /\ issue_url = similar_issues[choice.num].url
             /\ created = None
             /\ requests["search"] = 0
             /\ pc \in {"write_task_file", "exited"}
        ELSE /\ issue_number = created
             /\ pc \in {"collect", "find_related", "create", "generate_code_stubs",
                         "write_task_file", "exited"}
             /\ pc \in {"generate_code_stubs", "write_task_file"} => created # None
             /\ uncaught \in {"none", "find_related_issues", "create_github_issue"}

\* Six similar issues are listed, 6 is typed, and main goes on to create
C17_Witness ==
    /\ choice.asked
    /\ choice.integer
    /\ choice.num = 6
    /\ Len(similar_issues) = 6
    /\ pc = "collect"

\* The fifth of six listed issues is selected
C17_WitnessFifth ==
    /\ choice.asked
    /\ choice.num = 5
    /\ Len(similar_issues) = 6
    /\ issue_number = similar_issues[5].number
    /\ pc = "write_task_file"

\* The place of an entry of the merged list in the list before the sort:
\* the similar issues in their order, then the related issues in theirs
PlaceBeforeSort(e) ==
    IF e.kind = "similarity"
    THEN CHOOSE k \in 1..Len(similar_issues) : similar_issues[k] = e
    ELSE Len(similar_issues) + (CHOOSE k \in 1..Len(related_issues) : related_issues[k] = e)

\* C18: the merged list is in non-increasing order of score, and entries of
\* equal score are in the order they had before the sort
C18_MergedOrder ==
    Merged =>
        \A i, j \in 1..Len(all_issues) :
            i < j =>
                /\ all_issues[i].score >= all_issues[j].score
                /\ all_issues[i].score = all_issues[j].score =>
                        PlaceBeforeSort(all_issues[i]) < PlaceBeforeSort(all_issues[j])

\* Two entries of the merged list have the same score
C18_Witness ==
    /\ Merged
    /\ \E i, j \in 1..Len(all_issues) :
            i < j /\ all_issues[i].score = all_issues[j].score

\* The sort moved a related issue before a similar issue
C18_WitnessMoved ==
    /\ Merged
    /\ \E i, j \in 1..Len(all_issues) :
            /\ i < j
            /\ all_issues[i].kind = "relevance"
            /\ all_issues[j].kind = "similarity"

\* Every related issue found is also a similar issue
RelatedAmongSimilar == NumbersOf(related_issues) \subseteq NumbersOf(similar_issues)

\* C19: when every issue number of the relevance list occurs in the
\* similarity list, the merged list has the length and the issue numbers of
\* the similarity list
C19_MergeOfSubset ==
    Merged /\ RelatedAmongSimilar =>
        /\ Len(all_issues) = Len(similar_issues)
        /\ NumbersOf(all_issues) = NumbersOf(similar_issues)

\* Two similar issues, both found again as related issues
C19_Witness ==
    /\ Merged
    /\ RelatedAmongSimilar
    /\ Len(related_issues) = 2

\* The scores of the pair taken in the other order
SwappedString == calculate_similarity(issue_title, task_title)

SwappedToken ==
    calculate_token_similarity(tokenize_text(issue_title), tokenize_text(task_title))

SwappedCombined == combined_similarity(issue_title, task_title)

\* C20 as stated: the score of (a, b) equals the score of (b, a), in its
\* character-level part, its token-level part and combined
C20_Symmetric ==
    pc = "scored" =>
        /\ SameScore(scores.string, SwappedString)
        /\ SameScore(scores.token, SwappedToken)
        /\ SameScore(scores.combined, SwappedCombined)

\* C11: a finish_task run in which add_comment_and_close_issue returned
\* failure ends with exit code 1, and a run ends with exit code 0 only when
\* the issue was commented on and closed or the user chose to quit
C11_ExitCodes ==
    pc = "exited" =>
        /\ success = "False" => exit_code = "1"
        /\ exit_code = "0" => effects = {"comment", "close"} \/ quit

\* add_comment_and_close_issue has returned
Returned == success # "unset"

\* C13: when add_comment_and_close_issue returns failure the issue has
\* neither this run's comment nor been closed by it; at return the comment
\* was posted if and only if the issue was closed by this call
C13_NoPartialEffect ==
    Returned =>
        /\ success = "False" => effects = {}
        /\ "comment" \in effects <=> "close" \in effects

\* The number of '## Verification Results' lines of a record
HeaderCount(lines) ==
    Cardinality({ k \in 1..Len(lines) : lines[k] = VerificationResults })

\* The number of verification entries of a record
EntryCount(lines) ==
    Cardinality({ k \in 1..Len(lines) :
                    lines[k].kind = "item" /\ lines[k].text \in Verifications })

C14_BoundedRetries ==
    pc = "agent_done" /\ limited => result = "failure"

\* The tokens of the two titles scored
Tokens1 == tokenize_text(task_title)

Tokens2 == tokenize_text(issue_title)

\* C21: the token similarity of two titles whose token sets share no token
\* is 0.0, also when one of the token lists is empty
C21_NoCommonToken ==
    pc = "scored" /\ Range(Tokens1) \cap Range(Tokens2) = {} =>
        scores.token[1] = 0

\* Two titles without a token, one of stop words only and one of a space
C21_Witness ==
    /\ pc = "scored"
    /\ task_title = the
    /\ issue_title = <<" ">>
    /\ Tokens1 = <<>>
    /\ Tokens2 = <<>>

\* Two titles with tokens, none in common
C21_WitnessDisjoint ==
    /\ pc = "scored"
    /\ Tokens1 # <<>>
    /\ Tokens2 # <<>>
    /\ Range(Tokens1) \cap Range(Tokens2) = {}

\* The tracker's list holds no issue: it is empty or holds pull requests only
NoIssueListed == \A k \in 1..Len(tracker) : tracker[k].pull_request

\* C22: when the list the tracker returns holds no issue, find_similar_issues
\* returns (None, None, [])
C22_EmptyTracker ==
    ListReturned /\ NoIssueListed =>
        /\ exact_match = None
        /\ exact_url = NoUrl
        /\ similar_issues = <<>>

\* The list holds two pull requests whose title is the title of the task
C22_Witness ==
    /\ ListReturned
    /\ Len(tracker) = 2
    /\ \A k \in 1..Len(tracker) :
          tracker[k].pull_request /\ Lower(tracker[k].title) = Lower(task_title)

\* The list is empty
C22_WitnessEmpty == ListReturned /\ tracker = <<>>

\* The input read last was passed to ask_rag_agent
SentToEngine == \E k \in 1..Len(asked) : asked[k].turn = turns

\* C23: once '/exit' or 'quit' was entered, continue_chat is false and the
\* input was not passed to the query engine
C23_ExitWords ==
    turns > 0 /\ user_input \in {SlashExit, WordQuit} =>
        /\ ~continue_chat
        /\ ~SentToEngine

\* The sum of f[k] over the keys k of S
RECURSIVE SumOver(_, _)
SumOver(f, S) ==
    IF S = {} THEN 0
    ELSE LET k == CHOOSE x \in S : TRUE
         IN  f[k] + SumOver(f, S \ {k})

\* The entries a breakdown holds
Present(breakdown) == { k \in DOMAIN breakdown : breakdown[k].present }

TokensOf(breakdown) ==
    SumOver([k \in DOMAIN breakdown |-> breakdown[k].total_tokens], Present(breakdown))

QueriesOf(breakdown) ==
    SumOver([k \in DOMAIN breakdown |-> breakdown[k].query_count], Present(breakdown))

\* C30: from a fresh summary, after any calls of log_token_usage the
\* total_tokens of the summary is prompt_tokens plus completion_tokens, and
\* in by_task, by_month and by_api the total_tokens of the entries sum to it
\* and the query_count of the entries sum to the number of calls
C30_SummaryTotals ==
    /\ summary.total_tokens = summary.prompt_tokens + summary.completion_tokens
    /\ \A breakdown \in {summary.by_task, summary.by_month, summary.by_api} :
          /\ TokensOf(breakdown) = summary.total_tokens
          /\ QueriesOf(breakdown) = calls

\* Three calls, two of them for one task, in two months
C30_Witness ==
    /\ calls = 3
    /\ summary.by_task["1"].query_count = 2
    /\ summary.by_task["2"].query_count = 1
    /\ Cardinality(Present(summary.by_month)) = 2
    /\ summary.total_tokens > LargePrompt

\* The issue was closed when add_comment_and_close_issue was called
AlreadyClosed ==
    /\ IssuePlaces # {}
    /\ "close" \notin effects
    /\ \A k \in IssuePlaces : tracker[k].state = "closed"

\* The GET of the state was answered and the issue was open
CheckedOpen ==
    /\ requests["check"] > 0
    /\ "check" \notin failed
    /\ \/ \E k \in IssuePlaces : tracker[k].state # "closed"
       \/ "close" \in effects

\* C24: add_comment_and_close_issue checks, comments, closes, in this order:
\* no POST of the comment unless the check was answered and found the issue
\* open, no PATCH unless the comment was posted, no comment and no True for
\* an issue that is closed already, and True only after comment and close
C24_CheckCommentClose ==
    /\ requests["comment"] > 0 => CheckedOpen
    /\ requests["close"] > 0 => "comment" \in effects
    /\ AlreadyClosed => requests["comment"] = 0 /\ success # "True"
    /\ AlreadyClosed /\ pc = "report" => success = "False"
    /\ success = "True" => {"comment", "close"} \subseteq effects

\* The check failed once, then all three steps succeeded
C24_Witness ==
    /\ success = "True"
    /\ requests["check"] = 2
    /\ requests["comment"] = 1
    /\ requests["close"] = 1
    /\ effects = {"comment", "close"}

\* An issue that is closed already: one GET, no POST, no PATCH, False
C24_WitnessClosed ==
    /\ AlreadyClosed
    /\ pc = "report"
    /\ success = "False"
    /\ requests["check"] = 1
    /\ requests["comment"] = 0

\* C28: wherever main of finish_task reaches the closing comment,
\* rec_file_rel_path has been assigned, whatever generate_ai_recommendations
\* and update_ai_recommendations_index returned, and no run ends in main
\* with the name unbound
C28_RecPathAssigned ==
    /\ pc = "prepare_comment" => rec_file_rel_path # "unbound"
    /\ uncaught # "main"

\* The record starts as start_task wrote it
FromStartTask(lines) ==
    /\ Len(lines) >= Len(StartTaskRecord(<<>>))
    /\ lines[1].kind = "title"
    /\ SubSeq(lines, 1, Len(StartTaskRecord(<<>>))) = StartTaskRecord(lines[1].text)

\* Line k is after the '## Verification Results' header and before the
\* next '## ' header
InVerificationResults(lines, k) ==
    \E h \in 1..(k - 1) :
        /\ lines[h] = VerificationResults
        /\ \A j \in (h + 1)..k : lines[j].kind # "heading"

\* C29: the entry finish_task appends to a record that start_task created
\* is inside the '## Verification Results' section of the record
C29_EntryInSection ==
    [][ /\ pc = "record"
        /\ task_records[issue_number].exists
        /\ FromStartTask(task_records[issue_number].lines)
        /\ task_records' # task_records
        => LET lines == task_records'[issue_number].lines
           IN  InVerificationResults(lines, Len(lines)) ]_vars

\* C25: collect_project_data and find_related_issues are in flight together:
\* while main waits for collect_project_data, the search request of
\* find_related_issues can be issued
C25_SearchInFlight ==
    pc = "collect" => ENABLED (Next /\ requests'["search"] = requests["search"] + 1)

\* The title of the task is the title of no item of the tracker, case apart
NewTitle ==
    \A k \in 1..Len(tracker) : Lower(tracker[k].title) # Lower(task_title)

\* C27: for a title that differs, case apart, from the title of every
\* existing issue, some response at the prompt of main leads to the branch
\* that calls create_github_issue, also when an issue scores above 0.85
C27_CanCreate ==
    pc = "decide" /\ NewTitle => ENABLED (Next /\ pc' = "collect")

\* Every line of the one text is a line of the other
StillPresent(old, new) ==
    \A k \in 1..Len(old) : \E j \in 1..Len(new) : new[j] = old[k]

\* C26: start_task does not truncate or replace a task record: when
\* docs/tasks/TASK-<n>.md exists and the user reuses or links to issue n,
\* what the record held, the verification results too, is in it after the run
C26_RecordKept ==
    [][ /\ pc = "write_task_file"
        /\ created = None
        /\ issue_number \in DOMAIN task_records
        /\ task_records[issue_number].exists
        => StillPresent(task_records[issue_number].lines,
                        task_records'[issue_number].lines) ]_vars

====
